---- MODULE Spec2Model ----
(***************************************************************************)
(* Model of the request-distribution engine of wsd-proxy                   *)
(* (src/src/main.py): Proxy.fetch_single, Proxy.block_proxy,               *)
(* ProxyManager.active_proxies and ProxyManager.distribute_requests.       *)
(*                                                                         *)
(* One job is modelled: a ProxyManager is constructed over a pool of       *)
(* proxies, proxies may be blocked before the job (as the tests do), then  *)
(* distribute_requests runs on an input deque.  The asyncio tasks of one   *)
(* round are the elements of `tasks'; they start in creation order (the    *)
(* event loop runs ready callbacks first-in first-out) and their           *)
(* responses then arrive in any order.                                     *)
(***************************************************************************)
EXTENDS Integers, Sequences, FiniteSets, Bags, TLC

(* ---------------------------- bounds ----------------------------------- *)
MaxProxies == 2
MaxLen == 4

(* ------------------------ program constants ---------------------------- *)
\* main.py:12 sets 30 and main.py:13 sets 10; both are scaled down, keeping
\* the threshold below the limit, so that a second chunk, and a retirement
\* while a call of the same proxy is still in flight, happen within MaxLen
\* items.
MAX_CONCURRENT_REQUESTS_PER_PROXY == 3
MAX_RETRY_ATTEMPTS == 2

\* Variant: the limit applied is one more than the constant.
LimitOffByOne == MAX_CONCURRENT_REQUESTS_PER_PROXY + 1

\* The limit as the code applies it: the value given to asyncio.Semaphore
\* (main.py:135) and the length of the slices of the for loop (main.py:170-172).
ConcurrencyLimit == MAX_CONCURRENT_REQUESTS_PER_PROXY

\* Items are opaque strings; they are numbered by first occurrence in the input.
Items == 1..MaxLen

\* HTTP statuses an upstream can answer: 200, 503, and 400 standing for
\* every other status code.
Statuses == {200, 503, 400}

\* What the upstream behind a proxy may answer (the environment): always
\* 200, always 503, or anything.
Policies == {{200}, {503}, {200, 503, 400}}

Max(S) == IF S = {} THEN 0 ELSE CHOOSE m \in S : \A n \in S : n <= m

\* An input in which each new item is the next unused number.
FirstOccurrenceOrder(s) ==
    \A k \in 1..Len(s) : s[k] <= 1 + Max({s[j] : j \in 1..(k - 1)})

Inputs == {s \in UNION {[1..k -> Items] : k \in 0..MaxLen} :
              FirstOccurrenceOrder(s)}

VARIABLES
    proxies,             \* number of proxies of the pool, in dict order 1..proxies
    policy,              \* policy[p]: statuses the upstream of proxy p can answer
    active,              \* Proxy.active
    retry_count,         \* Proxy.retry_count
    semaphore,           \* value of ProxyManager.semaphore (shared by all proxies)
    original,            \* the deque distribute_requests was called with
    input_strings,       \* the local deque of distribute_requests
    attempted_requests,  \* the local set of distribute_requests
    tasks,               \* the tasks of the current round, in creation order
    chunk,               \* the loop variable `chunk' as the for loop left it
    output,              \* bag of the lines of the output file: <<item, proxy>>
    consecutive_503,     \* history: 503s proxy p processed since its last success
    requests,            \* history: bag of the items an HTTP request was issued for
    active_at_call,      \* history: Proxy.active when distribute_requests was called
    pc                   \* position of the job

vars == <<proxies, policy, active, retry_count, semaphore, original,
          input_strings, attempted_requests, tasks, chunk, output,
          consecutive_503, requests, active_at_call, pc>>

Pool == 1..proxies

Min(a, b) == IF a < b THEN a ELSE b

(* ------------------------------ Init ----------------------------------- *)
Init ==
    /\ proxies \in 0..MaxProxies
    /\ policy \in [1..proxies -> Policies]
    /\ active = [p \in 1..proxies |-> TRUE]
    /\ retry_count = [p \in 1..proxies |-> 0]
    /\ semaphore = ConcurrencyLimit
    /\ original \in Inputs
    /\ input_strings = original
    /\ attempted_requests = {}
    /\ tasks = <<>>
    /\ chunk = <<>>
    /\ output = EmptyBag
    /\ consecutive_503 = [p \in 1..proxies |-> 0]
    /\ requests = EmptyBag
    /\ active_at_call = [p \in 1..proxies |-> TRUE]
    /\ pc = "idle"

(* ----------------------- Proxy.block_proxy ----------------------------- *)
block_proxy(act, p) == [act EXCEPT ![p] = FALSE]

\* A caller blocks a proxy before the job starts.
BlockBeforeJob(p) ==
    /\ pc = "idle"
    /\ active[p]
    /\ active' = block_proxy(active, p)
    /\ UNCHANGED <<proxies, policy, retry_count, semaphore, original,
                   input_strings, attempted_requests, tasks, chunk, output,
                   consecutive_503, requests, active_at_call, pc>>

(* -------------------- ProxyManager.active_proxies ---------------------- *)
\* Variant: the snapshot does not filter on is_active.
EveryProxy == [p \in 1..proxies |-> p]

active_proxies == SelectSeq([p \in 1..proxies |-> p], LAMBDA p : active[p])

(* ------------------ ProxyManager.distribute_requests ------------------- *)
\* Entry: attempted_requests = set()
Call ==
    /\ pc = "idle"
    /\ pc' = "loop"
    /\ attempted_requests' = {}
    /\ active_at_call' = active
    /\ UNCHANGED <<proxies, policy, active, retry_count, semaphore, original,
                   input_strings, tasks, chunk, output, consecutive_503, requests>>

\* A task: its proxy and item, where it stands, what it returned or raised,
\* and as history whether it has issued its request and how many lines it
\* has written.
NewTask(p, s) == [proxy |-> p, input_string |-> s, state |-> "pending",
                  result |-> "none", issued |-> FALSE, lines |-> 0]

TasksFor(p, c) == [k \in 1..Len(c) |-> NewTask(p, c[k])]

\* Variant: the rest of the queue starts one item too early.
DropOneLess(q, n) == SubSeq(q, Min(n, Len(q)), Len(q))

Drop(q, n) == SubSeq(q, Min(n, Len(q)) + 1, Len(q))
Take(q, n) == SubSeq(q, 1, Min(n, Len(q)))

\* The for loop over the snapshot: each proxy takes the next chunk and one
\* task is created per item of it.
RECURSIVE ForEachProxy(_, _, _, _)
ForEachProxy(aps, q, ts, c) ==
    IF aps = <<>> THEN [input_strings |-> q, tasks |-> ts, chunk |-> c]
    ELSE LET ch == Take(q, ConcurrencyLimit)
             rest == Drop(q, ConcurrencyLimit)
         IN ForEachProxy(Tail(aps), rest, ts \o TasksFor(Head(aps), ch), ch)

\* while input_strings: false, the function returns.
Return ==
    /\ pc = "loop"
    /\ input_strings = <<>>
    /\ pc' = "returned"
    /\ UNCHANGED <<proxies, policy, active, retry_count, semaphore, original,
                   input_strings, attempted_requests, tasks, chunk, output,
                   consecutive_503, requests, active_at_call>>

\* Variant: the pool is checked before the queue is.
RaiseBeforeLoop ==
    /\ pc = "loop"
    /\ active_proxies = <<>>
    /\ pc' = "NoAvailableProxiesError"
    /\ UNCHANGED <<proxies, policy, active, retry_count, semaphore, original,
                   input_strings, attempted_requests, tasks, chunk, output,
                   consecutive_503, requests, active_at_call>>

\* if not active_proxies: raise NoAvailableProxiesError
RaiseNoAvailableProxies ==
    /\ pc = "loop"
    /\ input_strings # <<>>
    /\ active_proxies = <<>>
    /\ pc' = "NoAvailableProxiesError"
    /\ UNCHANGED <<proxies, policy, active, retry_count, semaphore, original,
                   input_strings, attempted_requests, tasks, chunk, output,
                   consecutive_503, requests, active_at_call>>

\* One pass of the loop body up to the await of asyncio.gather.
Dispatch ==
    /\ pc = "loop"
    /\ input_strings # <<>>
    /\ active_proxies # <<>>
    /\ LET r == ForEachProxy(active_proxies, input_strings, <<>>, chunk)
       IN /\ input_strings' = r.input_strings
          /\ tasks' = r.tasks
          /\ chunk' = r.chunk
    /\ pc' = "gather"
    /\ UNCHANGED <<proxies, policy, active, retry_count, semaphore, original,
                   attempted_requests, output, consecutive_503, requests, active_at_call>>

(* ------------------------ Proxy.fetch_single --------------------------- *)
Started(i) == tasks[i].state # "pending"

\* session.get(url): the task is past the semaphore and its request is out.
Get(ts, i) == [ts EXCEPT ![i].state = "requesting", ![i].issued = TRUE]

Issue(i) == requests (+) SetToBag({tasks[i].input_string})

\* Variant: the task does not look its item up in attempted_requests.
FetchStartNoCheck(i) ==
    /\ pc = "gather"
    /\ tasks[i].state = "pending"
    /\ \A j \in 1..(i - 1) : Started(j)
    /\ attempted_requests' = attempted_requests \cup {tasks[i].input_string}
    /\ IF semaphore > 0
       THEN /\ semaphore' = semaphore - 1
            /\ tasks' = Get(tasks, i)
            /\ requests' = Issue(i)
       ELSE /\ semaphore' = semaphore
            /\ tasks' = [tasks EXCEPT ![i].state = "waiting"]
            /\ requests' = requests
    /\ UNCHANGED <<proxies, policy, active, retry_count, original,
                   input_strings, chunk, output, consecutive_503,
                   active_at_call, pc>>

\* Variant: a skipped call is counted as a failure of the proxy.
FetchStartSkipCounts(i) ==
    /\ pc = "gather"
    /\ tasks[i].state = "pending"
    /\ \A j \in 1..(i - 1) : Started(j)
    /\ IF tasks[i].input_string \in attempted_requests
       THEN /\ tasks' = [tasks EXCEPT ![i].state = "done", ![i].result = "False"]
            /\ retry_count' = [retry_count EXCEPT ![tasks[i].proxy] = @ + 1]
            /\ UNCHANGED <<attempted_requests, semaphore, requests>>
       ELSE /\ attempted_requests' = attempted_requests \cup {tasks[i].input_string}
            /\ retry_count' = retry_count
            /\ IF semaphore > 0
               THEN /\ semaphore' = semaphore - 1
                    /\ tasks' = Get(tasks, i)
                    /\ requests' = Issue(i)
               ELSE /\ semaphore' = semaphore
                    /\ tasks' = [tasks EXCEPT ![i].state = "waiting"]
                    /\ requests' = requests
    /\ UNCHANGED <<proxies, policy, active, original, input_strings, chunk,
                   output, consecutive_503, active_at_call, pc>>

\* First step of a task: the attempted check, the add, and the semaphore.
FetchStart(i) ==
    /\ pc = "gather"
    /\ tasks[i].state = "pending"
    /\ \A j \in 1..(i - 1) : Started(j)
    /\ IF tasks[i].input_string \in attempted_requests
       THEN /\ tasks' = [tasks EXCEPT ![i].state = "done", ![i].result = "False"]
            /\ UNCHANGED <<attempted_requests, semaphore, requests>>
       ELSE /\ attempted_requests' = attempted_requests \cup {tasks[i].input_string}
            /\ IF semaphore > 0
               THEN /\ semaphore' = semaphore - 1
                    /\ tasks' = Get(tasks, i)
                    /\ requests' = Issue(i)
               ELSE /\ semaphore' = semaphore
                    /\ tasks' = [tasks EXCEPT ![i].state = "waiting"]
                    /\ requests' = requests
    /\ UNCHANGED <<proxies, policy, active, retry_count, original,
                   input_strings, chunk, output, consecutive_503,
                   active_at_call, pc>>

AllStarted == \A j \in 1..Len(tasks) : Started(j)

\* A task waiting for the semaphore gets it (waiters are served in order).
Acquire(i) ==
    /\ pc = "gather"
    /\ AllStarted
    /\ tasks[i].state = "waiting"
    /\ \A j \in 1..(i - 1) : tasks[j].state # "waiting"
    /\ semaphore > 0
    /\ semaphore' = semaphore - 1
    /\ tasks' = Get(tasks, i)
    /\ requests' = Issue(i)
    /\ UNCHANGED <<proxies, policy, active, retry_count, original,
                   input_strings, attempted_requests, chunk, output,
                   consecutive_503, active_at_call, pc>>

\* Variant: the write is started but not awaited; the call goes on without
\* the line being in the file.
Respond200WriteNotAwaited(i) ==
    /\ pc = "gather"
    /\ AllStarted
    /\ tasks[i].state = "requesting"
    /\ 200 \in policy[tasks[i].proxy]
    /\ tasks' = [tasks EXCEPT ![i].state = "written"]
    /\ UNCHANGED <<proxies, policy, active, retry_count, semaphore, original,
                   input_strings, attempted_requests, chunk, output,
                   consecutive_503, requests, active_at_call, pc>>

\* response.status == 200: the line is written to the output file.
Respond200(i) ==
    /\ pc = "gather"
    /\ AllStarted
    /\ tasks[i].state = "requesting"
    /\ 200 \in policy[tasks[i].proxy]
    /\ output' = output (+) SetToBag({<<tasks[i].input_string, tasks[i].proxy>>})
    /\ tasks' = [tasks EXCEPT ![i].state = "written", ![i].lines = @ + 1]
    /\ UNCHANGED <<proxies, policy, active, retry_count, semaphore, original,
                   input_strings, attempted_requests, chunk, consecutive_503, requests, active_at_call, pc>>

\* Variant: a success also makes the proxy active again.
Finish200Reactivates(i) ==
    /\ pc = "gather"
    /\ tasks[i].state = "written"
    /\ retry_count' = [retry_count EXCEPT ![tasks[i].proxy] = 0]
    /\ active' = [active EXCEPT ![tasks[i].proxy] = TRUE]
    /\ consecutive_503' = [consecutive_503 EXCEPT ![tasks[i].proxy] = 0]
    /\ tasks' = [tasks EXCEPT ![i].state = "done", ![i].result = "True"]
    /\ semaphore' = semaphore + 1
    /\ UNCHANGED <<proxies, policy, original, input_strings,
                   attempted_requests, chunk, output, requests,
                   active_at_call, pc>>

\* After the file is closed: retry_count = 0, return True, semaphore released.
Finish200(i) ==
    /\ pc = "gather"
    /\ tasks[i].state = "written"
    /\ retry_count' = [retry_count EXCEPT ![tasks[i].proxy] = 0]
    /\ consecutive_503' = [consecutive_503 EXCEPT ![tasks[i].proxy] = 0]
    /\ tasks' = [tasks EXCEPT ![i].state = "done", ![i].result = "True"]
    /\ semaphore' = semaphore + 1
    /\ UNCHANGED <<proxies, policy, active, original, input_strings,
                   attempted_requests, chunk, output, requests,
                   active_at_call, pc>>

\* Variant: the comparison is strict.
ShouldBlockStrict(n) == n > MAX_RETRY_ATTEMPTS

ShouldBlock(n) == n >= MAX_RETRY_ATTEMPTS

\* response.status == 503
Respond503(i) ==
    /\ pc = "gather"
    /\ AllStarted
    /\ tasks[i].state = "requesting"
    /\ 503 \in policy[tasks[i].proxy]
    /\ LET p == tasks[i].proxy
           n == retry_count[p] + 1
       IN /\ retry_count' = [retry_count EXCEPT ![p] = n]
          /\ active' = IF ShouldBlock(n) THEN block_proxy(active, p) ELSE active
          /\ consecutive_503' = [consecutive_503 EXCEPT ![p] = @ + 1]
    /\ tasks' = [tasks EXCEPT ![i].state = "done", ![i].result = "False"]
    /\ semaphore' = semaphore + 1
    /\ UNCHANGED <<proxies, policy, original, input_strings,
                   attempted_requests, chunk, output, requests,
                   active_at_call, pc>>

\* any other status: raise UnexpectedResponseCode
RespondOther(i) ==
    /\ pc = "gather"
    /\ AllStarted
    /\ tasks[i].state = "requesting"
    /\ 400 \in policy[tasks[i].proxy]
    /\ tasks' = [tasks EXCEPT ![i].state = "done",
                              ![i].result = "UnexpectedResponseCode"]
    /\ semaphore' = semaphore + 1
    /\ UNCHANGED <<proxies, policy, active, retry_count, original,
                   input_strings, attempted_requests, chunk, output,
                   consecutive_503, requests, active_at_call, pc>>

(* ------------- distribute_requests: after asyncio.gather --------------- *)
\* Variant: each task is paired with its own item, over all the tasks.
RECURSIVE ZipLoopOwnItem(_, _, _, _)
ZipLoopOwnItem(k, ts, c, q) ==
    IF k > Len(ts) THEN [input_strings |-> q, raised |-> "none"]
    ELSE IF ts[k].result = "UnexpectedResponseCode"
         THEN [input_strings |-> q, raised |-> ts[k].result]
         ELSE IF ts[k].result = "False"
              THEN ZipLoopOwnItem(k + 1, ts, c, <<ts[k].input_string>> \o q)
              ELSE ZipLoopOwnItem(k + 1, ts, c, q)

\* for task, input_string in zip(tasks, chunk): the k-th pair, k = 1, 2, ...
RECURSIVE ZipLoop(_, _, _, _)
ZipLoop(k, ts, c, q) ==
    IF k > Min(Len(ts), Len(c)) THEN [input_strings |-> q, raised |-> "none"]
    ELSE IF ts[k].result = "UnexpectedResponseCode"
         THEN [input_strings |-> q, raised |-> ts[k].result]
         ELSE IF ts[k].result = "False"
              THEN ZipLoop(k + 1, ts, c, <<c[k]>> \o q)
              ELSE ZipLoop(k + 1, ts, c, q)

\* Variant: the await returns as soon as one task is done.
CollectFirstCompleted ==
    /\ pc = "gather"
    /\ \E j \in 1..Len(tasks) : tasks[j].state = "done"
    /\ LET r == ZipLoop(1, tasks, chunk, input_strings)
       IN /\ input_strings' = r.input_strings
          /\ pc' = IF r.raised = "none" THEN "loop" ELSE r.raised
    /\ UNCHANGED <<proxies, policy, active, retry_count, semaphore, original,
                   attempted_requests, tasks, chunk, output, consecutive_503,
                   requests, active_at_call>>

\* gather(return_exceptions=True) returns when every task is done.
Collect ==
    /\ pc = "gather"
    /\ \A j \in 1..Len(tasks) : tasks[j].state = "done"
    /\ LET r == ZipLoop(1, tasks, chunk, input_strings)
       IN /\ input_strings' = r.input_strings
          /\ pc' = IF r.raised = "none" THEN "loop" ELSE r.raised
    /\ UNCHANGED <<proxies, policy, active, retry_count, semaphore, original,
                   attempted_requests, tasks, chunk, output, consecutive_503, requests, active_at_call>>

(* ------------------------------ Next ----------------------------------- *)
Next ==
    \/ \E p \in Pool : BlockBeforeJob(p)
    \/ Call
    \/ Return
    \/ RaiseNoAvailableProxies
    \/ Dispatch
    \/ \E i \in 1..Len(tasks) : FetchStart(i)
    \/ \E i \in 1..Len(tasks) : Acquire(i)
    \/ \E i \in 1..Len(tasks) : Respond200(i)
    \/ \E i \in 1..Len(tasks) : Finish200(i)
    \/ \E i \in 1..Len(tasks) : Respond503(i)
    \/ \E i \in 1..Len(tasks) : RespondOther(i)
    \/ Collect

Spec == Init /\ [][Next]_vars

\* The event loop runs every task that can run, and the dispatcher with it.
FairSpec == Spec /\ WF_vars(Next)

(* ====================== properties of the job ========================== *)
DistinctItems == {original[k] : k \in 1..Len(original)}

NoDuplicates == Cardinality(DistinctItems) = Len(original)

\* Number of output lines for item x, over all proxies.
RECURSIVE LinesUpTo(_, _)
LinesUpTo(x, p) ==
    IF p = 0 THEN 0 ELSE CopiesIn(<<x, p>>, output) + LinesUpTo(x, p - 1)

Lines(x) == LinesUpTo(x, proxies)

EveryItemOnce == \A x \in DistinctItems : Lines(x) = 1

Ended == pc \in {"returned", "NoAvailableProxiesError", "UnexpectedResponseCode"}

OnlyAnswers(S) == \A p \in Pool : policy[p] \subseteq S

AllActiveAtCall == pc # "idle" /\ \A p \in Pool : active_at_call[p]

NoneActiveAtCall == pc # "idle" /\ \A p \in Pool : ~active_at_call[p]

\* Calls of proxy p past the semaphore and not yet finished.
InFlight(p) ==
    Cardinality({i \in 1..Len(tasks) :
        tasks[i].proxy = p /\ tasks[i].state \in {"requesting", "written"}})

(* C1: whenever distribute_requests returns normally, every item of the    *)
(* original input has been written to the output exactly once.             *)
C1_ReturnMeansAllRecorded == pc = "returned" => EveryItemOnce

(* C2: with proxy 1 answering only 503 and proxy 2 answering only 200,     *)
(* both active, a job on distinct items that has returned has written      *)
(* every item exactly once, through proxy 2.                               *)
C2_Redistribution ==
    (/\ proxies = 2
     /\ policy[1] = {503}
     /\ policy[2] = {200}
     /\ AllActiveAtCall
     /\ NoDuplicates
     /\ pc = "returned")
    => \A x \in DistinctItems : CopiesIn(<<x, 2>>, output) = 1

(* C3: once a call of the round has raised UnexpectedResponseCode the job  *)
(* is either still awaiting the round or has raised that error; it neither *)
(* goes on to the next round nor returns.                                  *)
C3_FatalPropagation ==
    (\E i \in 1..Len(tasks) : tasks[i].result = "UnexpectedResponseCode")
    => pc \in {"gather", "UnexpectedResponseCode"}

(* C4: when every response is 200 or 503 the job eventually ends, by       *)
(* returning or by raising NoAvailableProxiesError (stated for the inputs  *)
(* without duplicates, where it already fails).                            *)
C4_Termination ==
    (OnlyAnswers({200, 503}) /\ NoDuplicates)
    => <>(pc \in {"returned", "NoAvailableProxiesError"})

(* C5: for an input without duplicates the output never holds more lines   *)
(* than there are input items, and at most one line per item.              *)
C5_NoDoubleCounting ==
    NoDuplicates =>
        /\ BagCardinality(output) <= Cardinality(DistinctItems)
        /\ \A x \in Items : Lines(x) <= (IF x \in DistinctItems THEN 1 ELSE 0)

\* An item already in the output was dispatched again and skipped.
C5_Witness ==
    /\ NoDuplicates
    /\ \E i \in 1..Len(tasks) :
          /\ tasks[i].state = "done"
          /\ tasks[i].result = "False"
          /\ Lines(tasks[i].input_string) = 1

(* C6 as stated: if no proxy is active when the job starts, the job does   *)
(* not return normally, whatever the input queue.                          *)
C6_ExhaustionAnyQueue ==
    (proxies > 0 /\ NoneActiveAtCall) => pc # "returned"

(* C6: if no proxy is active when the job starts and the input queue is    *)
(* not empty, the job can only end with NoAvailableProxiesError; it        *)
(* creates no call and writes nothing.                                     *)
C6_ExhaustionNonEmptyQueue ==
    (NoneActiveAtCall /\ original # <<>>) =>
        /\ pc \in {"loop", "NoAvailableProxiesError"}
        /\ pc = "loop" => ENABLED RaiseNoAvailableProxies
        /\ tasks = <<>>
        /\ attempted_requests = {}
        /\ output = EmptyBag

C6_Witness ==
    /\ NoneActiveAtCall
    /\ proxies > 0
    /\ original # <<>>
    /\ pc = "NoAvailableProxiesError"

(* C7: a proxy that processed MAX_RETRY_ATTEMPTS 503s in a row is          *)
(* inactive; an inactive proxy stays inactive, and a round creates calls   *)
(* only on proxies that are active when its snapshot is taken.             *)
C7_RetirementThreshold ==
    /\ [](\A p \in Pool : consecutive_503[p] >= MAX_RETRY_ATTEMPTS => ~active[p])
    /\ [][\A p \in Pool : ~active[p] =>
              /\ ~active'[p]
              /\ (pc = "loop" /\ pc' = "gather") =>
                    \A i \in 1..Len(tasks') : tasks'[i].proxy # p]_vars

\* A round was dispatched after a proxy retired on its threshold-th 503.
C7_Witness ==
    /\ pc = "gather"
    /\ tasks # <<>>
    /\ \A i \in 1..Len(tasks) : tasks[i].state = "pending"
    /\ \E p \in Pool :
          /\ active_at_call[p]
          /\ consecutive_503[p] >= MAX_RETRY_ATTEMPTS
          /\ ~active[p]

C9_EmptyInput ==
    original = <<>> =>
        /\ pc \in {"idle", "loop", "returned"}
        /\ pc = "loop" => ENABLED Return
        /\ tasks = <<>>
        /\ attempted_requests = {}
        /\ semaphore = MAX_CONCURRENT_REQUESTS_PER_PROXY
        /\ output = EmptyBag
        /\ pc # "idle" => active = active_at_call
        /\ \A p \in Pool : retry_count[p] = 0

C9_Witness == original = <<>> /\ proxies > 0 /\ pc = "returned"

(* C10: at any time each proxy has at most                                 *)
(* MAX_CONCURRENT_REQUESTS_PER_PROXY calls with a request in flight.       *)
C10_PerWorkerCap ==
    \A p \in Pool : InFlight(p) <= MAX_CONCURRENT_REQUESTS_PER_PROXY

\* A proxy is at the cap while another call waits for the semaphore.
C10_Witness ==
    /\ \E p \in Pool : InFlight(p) = MAX_CONCURRENT_REQUESTS_PER_PROXY
    /\ \E i \in 1..Len(tasks) : tasks[i].state = "waiting"

(* C11: when the input holds an item more than once and every request      *)
(* succeeds, the job eventually returns with an empty queue and one line   *)
(* per distinct item, each requested once.                                 *)
C11_DuplicateCoalescing ==
    (proxies > 0 /\ OnlyAnswers({200}) /\ ~NoDuplicates)
    => <>(\/ pc # "idle" /\ ~AllActiveAtCall
          \/ /\ pc = "returned"
             /\ input_strings = <<>>
             /\ \A x \in DistinctItems :
                   Lines(x) = 1 /\ CopiesIn(x, requests) = 1)

(* C12: when a round is collected without an error, the items put back at  *)
(* the front of the queue are exactly the items whose own call returned    *)
(* False.                                                                  *)
FailedItems ==
    {tasks[i].input_string : i \in {j \in 1..Len(tasks) : tasks[j].result = "False"}}

C12_RequeueExactlyFailed ==
    [][(pc = "gather" /\ pc' = "loop") =>
          {input_strings'[k] : k \in 1..(Len(input_strings') - Len(input_strings))}
              = FailedItems]_vars

(* C13: over the whole job at most one HTTP request is issued per item     *)
(* value, and only for an item that its call has put in the attempted set; *)
(* an item re-queued after a 503 is not requested again.                   *)
C13_OneRequestPerItem ==
    \A x \in Items :
        /\ CopiesIn(x, requests) <= 1
        /\ CopiesIn(x, requests) = 1 => x \in attempted_requests

\* An item that got a 503 was re-queued, dispatched again and skipped.
C13_Witness ==
    /\ NoDuplicates
    /\ OnlyAnswers({503})
    /\ \E i \in 1..Len(tasks) :
          /\ tasks[i].state = "done"
          /\ ~tasks[i].issued
          /\ CopiesIn(tasks[i].input_string, requests) = 1
          /\ Lines(tasks[i].input_string) = 0

(* C14 as stated: a call waits for a concurrency slot only when its own    *)
(* proxy already has MAX_CONCURRENT_REQUESTS_PER_PROXY requests in flight  *)
(* (or a slot has just been released and the call is about to take it).   *)
C14_BackpressurePerWorker ==
    \A i \in 1..Len(tasks) :
        (tasks[i].state = "waiting" /\ semaphore = 0)
        => InFlight(tasks[i].proxy) >= MAX_CONCURRENT_REQUESTS_PER_PROXY

(* C15: during the job a proxy that is inactive stays inactive in every    *)
(* step, also in the step in which a call of it succeeds and resets its    *)
(* failure counter; and its flag goes from true to false only in a step    *)
(* that leaves the failure counter at MAX_RETRY_ATTEMPTS or more.          *)
C15_RetirementIrreversible ==
    [][\A p \in Pool :
          /\ ~active[p] => ~active'[p]
          /\ (pc # "idle" /\ active[p] /\ ~active'[p])
                => retry_count'[p] >= MAX_RETRY_ATTEMPTS]_vars

\* A proxy retired during the job, and a call of it that was still in
\* flight has since succeeded and reset the counter.
C15_Witness ==
    \E p \in Pool :
        /\ active_at_call[p]
        /\ ~active[p]
        /\ retry_count[p] = 0
        /\ \E i \in 1..Len(tasks) :
              tasks[i].proxy = p /\ tasks[i].result = "True"

(* C16: a call that has returned True has written its line, which is in    *)
(* the output; a call that has returned False or raised has written no     *)
(* line.                                                                   *)
C16_RecordBeforeReport ==
    \A i \in 1..Len(tasks) :
        /\ tasks[i].result = "True" =>
              /\ tasks[i].lines = 1
              /\ CopiesIn(<<tasks[i].input_string, tasks[i].proxy>>, output) >= 1
        /\ tasks[i].result \in {"False", "UnexpectedResponseCode"} =>
              tasks[i].lines = 0

\* In one round a call has returned True, one False after a 503, and one
\* has raised.
C16_Witness ==
    /\ \E i \in 1..Len(tasks) : tasks[i].result = "True"
    /\ \E i \in 1..Len(tasks) : tasks[i].result = "False" /\ tasks[i].issued
    /\ \E i \in 1..Len(tasks) : tasks[i].result = "UnexpectedResponseCode"

(* C17: whenever the dispatcher is not awaiting a round (it is about to     *)
(* test the queue, take a snapshot and create calls, or it has re-inserted *)
(* items, returned or raised), every call of the last round has completed. *)
C17_RoundBarrier ==
    pc # "gather" => \A i \in 1..Len(tasks) : tasks[i].state = "done"

\* A later round has been dispatched after a round that issued requests.
C17_Witness ==
    /\ pc = "gather"
    /\ Len(tasks) >= 2
    /\ \A i \in 1..Len(tasks) : tasks[i].state = "pending"
    /\ BagCardinality(requests) >= 2

(* C18: a round creates min(queue length, active proxies x limit) calls;   *)
(* the k-th call is for the k-th item of the queue and belongs to the      *)
(* proxy of the snapshot whose turn it is, each proxy taking limit items   *)
(* in a row; the items taken, and only they, leave the queue.              *)
C18_Chunking ==
    [][(pc = "loop" /\ pc' = "gather") =>
          LET q == input_strings
              aps == active_proxies
              L == MAX_CONCURRENT_REQUESTS_PER_PROXY
              n == Min(Len(q), Len(aps) * L)
          IN /\ Len(tasks') = n
             /\ \A k \in 1..n :
                   /\ tasks'[k].input_string = q[k]
                   /\ tasks'[k].proxy = aps[((k - 1) \div L) + 1]
                   /\ tasks'[k].state = "pending"
             /\ input_strings' = SubSeq(q, n + 1, Len(q))]_vars

\* A round whose calls are spread over two proxies, the first with a full
\* chunk.
C18_Witness ==
    /\ pc = "gather"
    /\ Len(tasks) > MAX_CONCURRENT_REQUESTS_PER_PROXY
    /\ \A i \in 1..Len(tasks) : tasks[i].state = "pending"
    /\ tasks[1].proxy # tasks[Len(tasks)].proxy

(* C19: the first step of a call whose item is already in the attempted    *)
(* set ends the call with the result False and changes nothing else: not   *)
(* the proxy's failure counter or active flag, not the attempted set, not  *)
(* the output, and no request is issued.                                   *)
C19_SkipChangesNothing ==
    [][\A i \in 1..Len(tasks) :
          (/\ pc = "gather"
           /\ pc' = "gather"
           /\ tasks[i].state = "pending"
           /\ tasks'[i].state # "pending"
           /\ tasks[i].input_string \in attempted_requests)
          => /\ tasks'[i] = [tasks[i] EXCEPT !.state = "done", !.result = "False"]
             /\ \A j \in 1..Len(tasks) : j # i => tasks'[j] = tasks[j]
             /\ UNCHANGED <<retry_count, active, consecutive_503,
                            attempted_requests, output, requests,
                            semaphore>>]_vars

\* A call was skipped on a proxy that is one 503 away from retirement.
C19_Witness ==
    \E i \in 1..Len(tasks) :
        /\ tasks[i].state = "done"
        /\ tasks[i].result = "False"
        /\ ~tasks[i].issued
        /\ active[tasks[i].proxy]
        /\ retry_count[tasks[i].proxy] = MAX_RETRY_ATTEMPTS - 1

(* C20: after a round, `chunk' holds the items given to the last proxy of  *)
(* the snapshot; the items re-inserted in the queue are items of that      *)
(* chunk and at most as many as it holds; when it is empty nothing is      *)
(* re-inserted and the round ends without an error even if a call raised.  *)
C20_RequeueFromLastChunk ==
    [][/\ (pc = "loop" /\ pc' = "gather") =>
             LET aps == active_proxies
                 mine == {k \in 1..Len(tasks') : tasks'[k].proxy = aps[Len(aps)]}
                 m == Cardinality(mine)
             IN chunk' = [k \in 1..m |->
                             tasks'[Len(tasks') - m + k].input_string]
       /\ (pc = "gather" /\ pc' # "gather") =>
             LET m == Len(input_strings') - Len(input_strings)
             IN /\ m \in 0..Len(chunk)
                /\ SubSeq(input_strings', m + 1, Len(input_strings'))
                       = input_strings
                /\ \A k \in 1..m :
                      \E j \in 1..Len(chunk) : input_strings'[k] = chunk[j]
                /\ chunk = <<>> => pc' = "loop"]_vars

\* A round with two active proxies ended with the last chunk empty: a call
\* returned False and a call raised, nothing was re-inserted and the job
\* went on.
C20_Witness ==
    /\ pc = "loop"
    /\ chunk = <<>>
    /\ input_strings = <<>>
    /\ \E i \in 1..Len(tasks) : tasks[i].result = "False"
    /\ \E i \in 1..Len(tasks) : tasks[i].result = "UnexpectedResponseCode"

====
